---- MODULE Spec2Model ----
(***************************************************************************)
(* Model of mkdocs_nype/plugins/similar_blog_posts/plugin.py:              *)
(* SimilarBlogPostsPlugin.on_config (the collection resolver's state),     *)
(* SimilarBlogPostsPlugin.on_page_markdown (candidate gathering, scoring,  *)
(* filtering, ranking, truncation, rendering, insertion) and               *)
(* weighted_jaccard_similarity.                                            *)
(*                                                                         *)
(* Text (str) values are sequences of one-character strings, so that       *)
(* rstrip, startswith, endswith and split act on characters as in the      *)
(* code.  Scores are exact rationals [n, d] with d > 0; d = 0 stands for a *)
(* raised ZeroDivisionError.  The code computes in binary doubles: for     *)
(* category sets of up to four labels every comparison the code makes      *)
(* between two scores, and between a score and the thresholds 0, 0.5,      *)
(* 0.75, 0.9 and 1, has the same outcome in doubles as in exact            *)
(* arithmetic; the sets of this model have at most three labels.           *)
(***************************************************************************)
EXTENDS Integers, Sequences, FiniteSets, TLC

\* Number of posts of the blog (documents of the collection).
NumPosts == 4

----------------------------------------------------------------------------
(* str helpers *)

RECURSIVE rstrip(_, _)
\* str.rstrip(ch): drop every trailing ch.
rstrip(s, ch) ==
    IF Len(s) > 0 /\ s[Len(s)] = ch
    THEN rstrip(SubSeq(s, 1, Len(s) - 1), ch)
    ELSE s

\* str.startswith
startswith(s, p) == Len(p) <= Len(s) /\ SubSeq(s, 1, Len(p)) = p

\* str.endswith
endswith(s, p) ==
    Len(p) <= Len(s) /\ SubSeq(s, Len(s) - Len(p) + 1, Len(s)) = p

RECURSIVE split(_, _)
\* str.split(sep): the fields between occurrences of the one-character sep.
split(s, sep) ==
    IF \E i \in 1..Len(s) : s[i] = sep
    THEN LET i == CHOOSE k \in 1..Len(s) :
                     s[k] = sep /\ \A j \in 1..(k - 1) : s[j] # sep
         IN  <<SubSeq(s, 1, i - 1)>> \o split(SubSeq(s, i + 1, Len(s)), sep)
    ELSE <<s>>

\* p.rstrip("/") + "/"
SanitizePrefix(p) == rstrip(p, "/") \o <<"/">>

----------------------------------------------------------------------------
(* float arithmetic, as exact rationals *)

RECURSIVE Gcd(_, _)
Gcd(a, b) == IF b = 0 THEN a ELSE Gcd(b, a % b)

ZeroDivisionError == [n |-> 0, d |-> 0]

Raised(x) == x.d = 0

\* The rational n/d in lowest terms (d > 0).
Rat(n, d) ==
    LET g == Gcd(IF n < 0 THEN -n ELSE n, d)
    IN  [n |-> n \div g, d |-> d \div g]

FromInt(k) == [n |-> k, d |-> 1]

\* x / y; a zero divisor raises.
RDiv(x, y) ==
    IF Raised(x) \/ Raised(y) \/ y.n = 0
    THEN ZeroDivisionError
    ELSE IF y.n > 0 THEN Rat(x.n * y.d, x.d * y.n)
                    ELSE Rat(-(x.n * y.d), x.d * (-y.n))

RMul(x, y) ==
    IF Raised(x) \/ Raised(y) THEN ZeroDivisionError
    ELSE Rat(x.n * y.n, x.d * y.d)

RAdd(x, y) ==
    IF Raised(x) \/ Raised(y) THEN ZeroDivisionError
    ELSE Rat(x.n * y.d + y.n * x.d, x.d * y.d)

\* x >= y and x < y on values that were not raised.
RGeq(x, y) == x.n * y.d >= y.n * x.d
RLess(x, y) == x.n * y.d < y.n * x.d

----------------------------------------------------------------------------
(* weighted_jaccard_similarity *)

\* Variant: the sanity check on empty sets is missing.
WeightedJaccardUnchecked(set_a, set_b, use_weights) ==
    LET numerator == Cardinality(set_a \cap set_b)
        len_a == FromInt(Cardinality(set_a))
        len_b == FromInt(Cardinality(set_b))
        weight_a == RDiv(len_b, RAdd(len_a, len_b))
        weight_b == RDiv(len_a, RAdd(len_a, len_b))
        denominator ==
            IF use_weights
            THEN RAdd(RMul(weight_a, len_a), RMul(weight_b, len_b))
            ELSE FromInt(Cardinality(set_a \cup set_b))
    IN  RDiv(FromInt(numerator), denominator)

\* Variant: weight_a is used for both terms of the denominator, and the
\* unweighted denominator is the size of set_b.
WeightedJaccardOneWeight(set_a, set_b, use_weights) ==
    IF set_a = {} \/ set_b = {}
    THEN FromInt(0)
    ELSE LET numerator == Cardinality(set_a \cap set_b)
             len_a == FromInt(Cardinality(set_a))
             len_b == FromInt(Cardinality(set_b))
             weight_a == RDiv(len_b, RAdd(len_a, len_b))
             denominator ==
                 IF use_weights
                 THEN RAdd(RMul(weight_a, len_a), RMul(weight_a, len_b))
                 ELSE len_b
         IN  RDiv(FromInt(numerator), denominator)

weighted_jaccard_similarity(set_a, set_b, use_weights) ==
    IF set_a = {} \/ set_b = {}
    THEN FromInt(0)
    ELSE LET numerator == Cardinality(set_a \cap set_b)
             len_a == FromInt(Cardinality(set_a))
             len_b == FromInt(Cardinality(set_b))
             weight_a == RDiv(len_b, RAdd(len_a, len_b))
             weight_b == RDiv(len_a, RAdd(len_a, len_b))
             denominator ==
                 IF use_weights
                 THEN RAdd(RMul(weight_a, len_a), RMul(weight_b, len_b))
                 ELSE FromInt(Cardinality(set_a \cup set_b))
         IN  RDiv(FromInt(numerator), denominator)

----------------------------------------------------------------------------
(* The site: pages, post metadata and the blog plugin's category index *)

VARIABLES
    config,               \* self.config (SimilarBlogPostsConfig)
    plugins,              \* config.plugins.items(): <<[name, instance]>>
    blog_instance_map,    \* self.blog_instance_map
    sanitized_prefixes,   \* self.sanitized_prefixes
    posts,                \* post -> [categories (page.meta), indexed]
    call,                 \* the most recent on_page_markdown call
    eval                  \* the most recent direct use of the score function

vars == <<config, plugins, blog_instance_map, sanitized_prefixes, posts,
          call, eval>>

Posts == 1..NumPosts

\* page.meta.get("categories"): None when the key is absent, else a list.
None == [present |-> FALSE, list |-> <<>>]
List(l) == [present |-> TRUE, list |-> l]

\* set(list)
ToSet(l) == {l[i] : i \in DOMAIN l}

\* `not categories_self`: None and the empty list are falsy.
Falsy(categories) == ~categories.present \/ categories.list = <<>>

\* page.meta["categories"] of a post whose index entry agrees with it.
MetaChoices ==
    { None, List(<<"go">>), List(<<"go", "rust">>),
      List(<<"go", "rust", "cpp">>), List(<<"cpp", "rust", "cpp">>) }

Digits == <<"1", "2", "3", "4", "5", "6">>

\* page.file.src_uri: posts live under b/, every second one in b/y/.
SrcUri(post) ==
    <<"b", "/">> \o (IF post % 2 = 0 THEN <<"y", "/">> ELSE <<>>)
                 \o <<Digits[post]>>

\* page.title: all posts but the first carry the same title.
Title(post) == IF post = 1 THEN "First" ELSE "Same"

\* Path(page.file.abs_src_path).parts
AbsSrcPath(post) == <<<<"d">>>> \o split(SrcUri(post), "/")

\* The posts a blog instance manages: those under its blog_dir.
PostsOf(instance) ==
    {p \in Posts : startswith(SrcUri(p), SanitizePrefix(instance.blog_dir))}

\* Posts of a set, newest first (the blog plugin's order).
RECURSIVE NewestFirst(_, _)
NewestFirst(S, k) ==
    IF k = 0 THEN <<>>
    ELSE (IF k \in S THEN <<k>> ELSE <<>>) \o NewestFirst(S, k - 1)

CategoryOrder == <<"rust", "go", "cpp">>

\* blog_instance.blog.views: an archive view (not a Category, though named
\* like one) followed by one Category view per indexed category.
Views(instance) ==
    LET mine == PostsOf(instance)
        Cat(c) == [is_category |-> TRUE, name |-> c,
                   posts |-> NewestFirst({p \in mine : c \in posts[p].indexed},
                                         NumPosts)]
        NonEmpty(c) == \E p \in mine : c \in posts[p].indexed
        cats == SelectSeq(CategoryOrder, NonEmpty)
    IN  <<[is_category |-> FALSE, name |-> "go",
           posts |-> NewestFirst(mine, NumPosts)]>>
        \o [i \in 1..Len(cats) |-> Cat(cats[i])]

----------------------------------------------------------------------------
(* on_config *)

\* Variant: the map is not cleared.
KeptMap(old) == old

\* self.blog_instance_map.clear()
ClearedMap(old) == <<>>

\* isinstance(hook_blog_dir, str): convert it to a list
AsList(hook_blog_dir) ==
    IF hook_blog_dir.is_str
    THEN [is_str |-> FALSE, str |-> <<>>, list |-> <<hook_blog_dir.str>>]
    ELSE hook_blog_dir

\* [p.rstrip("/") + "/" for p in self.config.hook_blog_dir]
Sanitized(list) == [i \in DOMAIN list |-> SanitizePrefix(list[i])]

\* prefix in self.sanitized_prefixes
InList(x, l) == \E i \in DOMAIN l : l[i] = x

\* name.split(" ")[0].endswith("/blog") and instance.config.enabled
IsBlogInstance(item) ==
    /\ endswith(split(item.name, " ")[1], <<"/", "b", "l", "o", "g">>)
    /\ item.instance.enabled

RECURSIVE LoadInstances(_, _, _, _)
\* for name, instance in config.plugins.items(): ...
LoadInstances(items, i, prefixes, map) ==
    IF i > Len(items) THEN map
    ELSE LET item == items[i]
             blog_dir == SanitizePrefix(item.instance.blog_dir)
         IN  IF IsBlogInstance(item) /\ InList(blog_dir, prefixes)
             THEN LoadInstances(items, i + 1, prefixes,
                      (blog_dir :> item.instance)
                      @@ [k \in DOMAIN map \ {blog_dir} |-> map[k]])
             ELSE LoadInstances(items, i + 1, prefixes, map)

NoCall == [page |-> 0, outcome |-> "not called", markdown |-> <<>>,
           similar_posts |-> <<>>, scored |-> <<>>]

on_config(new_config, new_plugins) ==
    LET hook == AsList(new_config.hook_blog_dir)
        prefixes == Sanitized(hook.list)
    IN  /\ config' = [new_config EXCEPT !.hook_blog_dir = hook]
        /\ plugins' = new_plugins
        /\ sanitized_prefixes' = prefixes
        /\ blog_instance_map' =
               LoadInstances(new_plugins, 1, prefixes,
                             ClearedMap(blog_instance_map))
        /\ call' = NoCall
        /\ UNCHANGED <<posts, eval>>

----------------------------------------------------------------------------
(* on_page_markdown *)

\* for prefix in self.sanitized_prefixes: if src_uri.startswith(prefix): break
\* The index of the first matching prefix, 0 when the loop runs to its else.
FirstMatch(src_uri, prefixes) ==
    IF \E i \in DOMAIN prefixes : startswith(src_uri, prefixes[i])
    THEN CHOOSE i \in DOMAIN prefixes :
             /\ startswith(src_uri, prefixes[i])
             /\ \A j \in 1..(i - 1) : ~startswith(src_uri, prefixes[j])
    ELSE 0

\* not isinstance(view, Category) or view.name not in set_a
SkipView(view, set_a) == ~view.is_category \/ view.name \notin set_a

\* Variants of the skip test: without the processed set, without the self test.
SkipPostNoDedup(post, page, processed_post_ids) == post = page
SkipPostNoSelf(post, page, processed_post_ids) == post \in processed_post_ids

\* post is page or id(post) in processed_post_ids
SkipPost(post, page, processed_post_ids) ==
    post = page \/ post \in processed_post_ids

\* Variant: a strict comparison.
KeepStrict(score, similarity_threshold) == RLess(similarity_threshold, score)

\* score >= self.config.similarity_threshold
Keep(score, similarity_threshold) == RGeq(score, similarity_threshold)

RECURSIVE ScanPosts(_, _, _, _, _, _)
\* for post in view.posts: ...   acc.exc names the exception raised, if any.
ScanPosts(view_posts, j, page, set_a, similarity_threshold, acc) ==
    IF acc.exc # "" \/ j > Len(view_posts) THEN acc
    ELSE LET post == view_posts[j]
             categories_other == posts[post].categories
             set_b == ToSet(categories_other.list)
             score == weighted_jaccard_similarity(set_a, set_b, TRUE)
         IN  IF SkipPost(post, page, acc.processed_post_ids)
             THEN ScanPosts(view_posts, j + 1, page, set_a,
                            similarity_threshold, acc)
             ELSE IF ~categories_other.present
             THEN [acc EXCEPT !.exc = "TypeError"]      \* set(None)
             ELSE IF Raised(score)
             THEN [acc EXCEPT !.exc = "ZeroDivisionError"]
             ELSE ScanPosts(view_posts, j + 1, page, set_a,
                      similarity_threshold,
                      [acc EXCEPT
                         !.similar_posts =
                             IF Keep(score, similarity_threshold)
                             THEN Append(@, [post |-> post, score |-> score])
                             ELSE @,
                         !.scored = Append(@, [post |-> post, score |-> score]),
                         !.processed_post_ids = @ \cup {post}])

RECURSIVE ScanViews(_, _, _, _, _, _)
\* for view in blog_instance.blog.views: ...
ScanViews(views, i, page, set_a, similarity_threshold, acc) ==
    IF acc.exc # "" \/ i > Len(views) THEN acc
    ELSE IF SkipView(views[i], set_a)
    THEN ScanViews(views, i + 1, page, set_a, similarity_threshold, acc)
    ELSE ScanViews(views, i + 1, page, set_a, similarity_threshold,
                   ScanPosts(views[i].posts, 1, page, set_a,
                             similarity_threshold, acc))

\* Variant: x goes in front of the entries with an equal score.
InsertByScoreUnstable(sorted, x) ==
    LET before == {k \in 1..Len(sorted) : RLess(x.score, sorted[k].score)}
        n == Cardinality(before)
    IN  SubSeq(sorted, 1, n) \o <<x>> \o SubSeq(sorted, n + 1, Len(sorted))

\* Where the stable sort puts x: behind every entry whose key -score is not
\* greater than x's.
InsertByScore(sorted, x) ==
    LET before == {k \in 1..Len(sorted) : ~RLess(sorted[k].score, x.score)}
        n == Cardinality(before)
    IN  SubSeq(sorted, 1, n) \o <<x>> \o SubSeq(sorted, n + 1, Len(sorted))

RECURSIVE SortByScore(_)
\* sorted(similar_posts, key=lambda p: -p[1])
SortByScore(similar_posts) ==
    IF similar_posts = <<>> THEN <<>>
    ELSE InsertByScore(
             SortByScore(SubSeq(similar_posts, 1, Len(similar_posts) - 1)),
             similar_posts[Len(similar_posts)])

\* Variant: the slice keeps the last max_shown entries.
TruncateTail(similar_posts, max_shown) ==
    IF max_shown > 0 /\ max_shown < Len(similar_posts)
    THEN SubSeq(similar_posts, Len(similar_posts) - max_shown + 1,
                Len(similar_posts))
    ELSE similar_posts

\* if self.config.max_shown > 0: similar_posts[: self.config.max_shown]
Truncate(similar_posts, max_shown) ==
    IF max_shown > 0
    THEN SubSeq(similar_posts, 1,
                IF max_shown < Len(similar_posts) THEN max_shown
                ELSE Len(similar_posts))
    ELSE similar_posts

\* Path(...).parent
Parent(parts) == SubSeq(parts, 1, Len(parts) - 1)

\* PurePath.relative_to(other, walk_up=True)
RelativeTo(path, other) ==
    LET IsRelativeTo(n) == n <= Len(path) /\ SubSeq(path, 1, n) = SubSeq(other, 1, n)
        step == CHOOSE s \in 0..Len(other) :
                    /\ IsRelativeTo(Len(other) - s)
                    /\ \A t \in 0..(s - 1) : ~IsRelativeTo(Len(other) - t)
    IN  [k \in 1..step |-> <<".", ".">>]
        \o SubSeq(path, Len(other) - step + 1, Len(path))

RECURSIVE AsPosix(_)
\* PurePath.as_posix(): the parts joined by "/"
AsPosix(parts) ==
    IF parts = <<>> THEN <<".">>
    ELSE IF Len(parts) = 1 THEN parts[1]
    ELSE parts[1] \o <<"/">> \o AsPosix(Tail(parts))

RECURSIVE PostsMd(_, _)
\* posts_md += f"- [{url_title}]({url_path})\n"
PostsMd(similar_posts, current_path) ==
    IF similar_posts = <<>> THEN <<>>
    ELSE LET post == similar_posts[1].post
             url_path == AsPosix(RelativeTo(AbsSrcPath(post), current_path))
         IN  <<"- [", Title(post), "](">> \o url_path \o <<")\n">>
             \o PostsMd(Tail(similar_posts), current_path)

\* SECTION_TEMPLATE.format(title=..., posts_md=...)
SECTION_TEMPLATE(title, posts_md) ==
    <<"<div class='nype-similar' markdown>\n",
      "<div class='nype-similar-title' markdown>", title, "</div>\n",
      "<div class='nype-similar-list' markdown>\n\n">>
    \o posts_md \o <<"\n\n</div>\n</div>">>

\* The markdown the hook returns, by self.config.append_at.
Insert(markdown, section, append_at) ==
    IF append_at = "end" THEN markdown \o <<"\n\n">> \o section
    ELSE IF append_at = "start" THEN section \o <<"\n\n">> \o markdown
    ELSE markdown

Returned(page, outcome, markdown, similar_posts, scored) ==
    [page |-> page, outcome |-> outcome, markdown |-> markdown,
     similar_posts |-> similar_posts, scored |-> scored]

\* The whole hook: what the call on `page` with body `markdown` comes to.
OnPageMarkdownResult(markdown, page) ==
    LET categories_self == posts[page].categories
        m == FirstMatch(SrcUri(page), sanitized_prefixes)
        prefix == sanitized_prefixes[m]
        blog_instance == blog_instance_map[prefix]
        set_a == ToSet(categories_self.list)
        acc == ScanViews(Views(blog_instance), 1, page, set_a,
                         config.similarity_threshold,
                         [similar_posts |-> <<>>, scored |-> <<>>,
                          processed_post_ids |-> {}, exc |-> ""])
        similar_posts == Truncate(SortByScore(acc.similar_posts),
                                  config.max_shown)
        posts_md == PostsMd(similar_posts, Parent(AbsSrcPath(page)))
        section == SECTION_TEMPLATE(config.title, posts_md)
    IN  IF Falsy(categories_self)
        THEN Returned(page, "None", <<>>, <<>>, <<>>)
        ELSE IF m = 0
        THEN Returned(page, "None", <<>>, <<>>, <<>>)
        ELSE IF prefix \notin DOMAIN blog_instance_map
        THEN Returned(page, "KeyError", <<>>, <<>>, <<>>)
        ELSE IF acc.exc # ""
        THEN Returned(page, acc.exc, <<>>, <<>>, acc.scored)
        ELSE IF acc.similar_posts = <<>>
        THEN Returned(page, "None", <<>>, <<>>, acc.scored)
        ELSE Returned(page, "markdown",
                      Insert(markdown, section, config.append_at),
                      similar_posts, acc.scored)

Body == <<"# Body">>

on_page_markdown(page) ==
    /\ call' = OnPageMarkdownResult(Body, page)
    /\ UNCHANGED <<config, plugins, blog_instance_map, sanitized_prefixes,
                   posts, eval>>

----------------------------------------------------------------------------
(* Direct use of the score function (both modes) *)

AllCategories == {"go", "rust", "cpp"}

Score(set_a, set_b, use_weights) ==
    /\ eval' = [set_a |-> set_a, set_b |-> set_b, use_weights |-> use_weights,
                score |-> weighted_jaccard_similarity(set_a, set_b, use_weights)]
    /\ UNCHANGED <<config, plugins, blog_instance_map, sanitized_prefixes,
                   posts, call>>

----------------------------------------------------------------------------
(* Configurations and sites the specifications draw from *)

Str(s) == [is_str |-> TRUE, str |-> s, list |-> <<>>]
Lst(l) == [is_str |-> FALSE, str |-> <<>>, list |-> l]

Config(hook_blog_dir, similarity_threshold, max_shown, append_at) ==
    [hook_blog_dir |-> hook_blog_dir,
     similarity_threshold |-> similarity_threshold,
     max_shown |-> max_shown, append_at |-> append_at,
     title |-> "Similar posts"]

Plugin(name, id, blog_dir, enabled) ==
    [name |-> name,
     instance |-> [id |-> id, blog_dir |-> blog_dir, enabled |-> enabled]]

NameBlog == <<"m", "/", "b", "l", "o", "g">>
NameBlog2 == NameBlog \o <<" ", "#", "2">>
NameBlogger == NameBlog \o <<"x">>
NameSearch == <<"s", "e", "a", "r", "c", "h">>

\* One enabled blog instance for b/, which the configuration names.
BlogB == <<Plugin(NameSearch, 1, <<>>, TRUE), Plugin(NameBlog, 2, <<"b">>, TRUE)>>

PluginChoices ==
    { BlogB,
      <<Plugin(NameBlog, 2, <<"b", "/">>, FALSE)>>,
      <<Plugin(NameBlog, 3, <<"n">>, TRUE), Plugin(NameBlog2, 2, <<"b">>, TRUE)>>,
      <<Plugin(NameBlogger, 2, <<"b">>, TRUE)>>,
      <<Plugin(NameBlog, 2, <<"b">>, TRUE), Plugin(NameBlog2, 4, <<"b", "/">>, TRUE)>> }

\* Prefixes of one configuration do not overlap.
HookChoices ==
    { Str(<<"b">>), Lst(<<<<"b", "/">>>>), Lst(<<<<"b", "/", "/">>, <<"n">>>>),
      Lst(<<<<"n">>>>), Lst(<<>>), Lst(<<<<"n", "/">>, <<"b">>>>) }

Half == Rat(1, 2)

ResolverConfigs == {Config(h, Half, 10, "end") : h \in HookChoices}

EngineConfigs ==
    { Config(Str(<<"b">>), Half, 10, "end"),
      Config(Str(<<"b">>), Half, 1, "start"),
      Config(Str(<<"b">>), Rat(3, 4), 2, "end"),
      Config(Str(<<"b">>), Rat(3, 4), -1, "start"),
      Config(Str(<<"b">>), Rat(9, 10), 10, "end"),
      Config(Str(<<"b">>), FromInt(1), 0, "start") }

ScenarioConfigs ==
    { Config(Str(<<"b">>), Half, 10, "end"),
      Config(Str(<<"b">>), Half, 1, "end"),
      Config(Str(<<"b">>), Rat(9, 10), 10, "end") }

\* The configuration before it is loaded: no prefix, no plugin.
Unconfigured == Config(Lst(<<>>), Half, 0, "end")

\* A post whose index entry agrees with its own metadata.
Post(categories) ==
    [categories |-> categories, indexed |-> ToSet(categories.list)]

\* Sites whose category index lists a post under exactly its own categories.
Sites == {[p \in Posts |-> Post(w[p])] : w \in [Posts -> MetaChoices]}

\* D1 = {go, rust}, D2 = {go}, D3 = {go, rust, cpp}; any further post has
\* no categories.
ScenarioSite ==
    [p \in Posts |->
        Post(IF p = 1 THEN List(<<"go", "rust">>)
             ELSE IF p = 3 THEN List(<<"go", "rust", "cpp">>)
             ELSE IF p = 2 THEN List(<<"go">>)
             ELSE None)]

\* The scenario site, and a site whose posts are all tagged go alone.
ResolverSites == {ScenarioSite, [p \in Posts |-> Post(List(<<"go">>))]}

\* Sites whose index still lists a post under categories its metadata lacks.
StaleSites ==
    [Posts -> { [categories |-> c, indexed |-> s] :
                   c \in {None, List(<<>>), List(<<"go">>), List(<<"go", "rust">>)},
                   s \in {{"go", "rust"}} }]

InitPlugin ==
    /\ config = Unconfigured
    /\ plugins = <<>>
    /\ blog_instance_map = <<>>
    /\ sanitized_prefixes = <<>>
    /\ call = NoCall
    /\ eval = [set_a |-> {}, set_b |-> {}, use_weights |-> TRUE,
               score |-> FromInt(0)]

----------------------------------------------------------------------------
(* Specifications *)

\* The engine, over every site with a consistent index.
Init == InitPlugin /\ posts \in Sites

Next ==
    \/ \E c \in EngineConfigs : on_config(c, BlogB)
    \/ \E page \in Posts : on_page_markdown(page)

Spec == Init /\ [][Next]_vars

\* The resolver, over configurations and plugin lists.
InitResolver == InitPlugin /\ posts \in ResolverSites

NextResolver ==
    \/ \E c \in ResolverConfigs, ps \in PluginChoices : on_config(c, ps)
    \/ \E page \in Posts : on_page_markdown(page)

SpecResolver == InitResolver /\ [][NextResolver]_vars

\* The score function on its own, and the engine on the scenario site.
NextScore ==
    \/ \E a \in SUBSET AllCategories, b \in SUBSET AllCategories,
          w \in BOOLEAN : Score(a, b, w)
    \/ \E c \in ScenarioConfigs : on_config(c, BlogB)
    \/ \E page \in Posts : on_page_markdown(page)

InitScore == InitPlugin /\ posts = ScenarioSite

SpecScore == InitScore /\ [][NextScore]_vars

\* The engine over sites with a stale index.
InitStale == InitPlugin /\ posts \in StaleSites

StaleConfigs ==
    { Config(Str(<<"b">>), Half, 10, "end"),
      Config(Lst(<<<<"b">>>>), FromInt(0), 1, "start"),
      Config(Lst(<<<<"b">>>>), Half, 0, "middle") }

NextStale ==
    \/ \E c \in StaleConfigs : on_config(c, BlogB)
    \/ \E page \in Posts : on_page_markdown(page)

SpecStale == InitStale /\ [][NextStale]_vars

----------------------------------------------------------------------------
(* What the claims speak of *)

Called == call.outcome # "not called"
Completed == call.outcome \in {"None", "markdown"}

\* The prefix a page falls under, and whether a blog instance is bound to it.
UnderPrefix(page, prefix) ==
    InList(prefix, sanitized_prefixes) /\ startswith(SrcUri(page), prefix)

\* The candidates of a page: the other posts of its collection that the index
\* lists under at least one of the page's categories.
CandidatesOf(page) ==
    LET set_a == ToSet(posts[page].categories.list)
    IN  IF Falsy(posts[page].categories) THEN {}
        ELSE { q \in Posts \ {page} :
                 /\ posts[q].indexed \cap set_a # {}
                 /\ \E prefix \in DOMAIN blog_instance_map :
                       /\ UnderPrefix(page, prefix)
                       /\ q \in PostsOf(blog_instance_map[prefix]) }

\* How often a post occurs in a list of (post, score) entries.
Occurrences(entries, q) == Cardinality({i \in DOMAIN entries : entries[i].post = q})

PostsIn(entries) == {entries[i].post : i \in DOMAIN entries}

\* C1: a page with categories under a configured prefix that no blog instance
\* matches is passed over: the hook returns without an error and without a
\* section.
C1_UnmatchedPrefixIsSkipped ==
    \A prefix \in ToSet(sanitized_prefixes) :
        ( /\ Called
          /\ ~Falsy(posts[call.page].categories)
          /\ UnderPrefix(call.page, prefix)
          /\ prefix \notin DOMAIN blog_instance_map )
        => (call.outcome = "None" /\ call.markdown = <<>>)

\* C2: a candidate listed under a matching category whose own categories are
\* absent or empty is scored 0, is left out when the threshold is above 0, and
\* the hook completes.
C2_CandidateWithoutCategoriesScoresZero ==
    \A q \in Posts :
        ( /\ Called
          /\ q \in CandidatesOf(call.page)
          /\ Falsy(posts[q].categories) )
        => /\ Completed
           /\ \E i \in DOMAIN call.scored :
                 call.scored[i] = [post |-> q, score |-> FromInt(0)]
           /\ (RLess(FromInt(0), config.similarity_threshold)
                  => q \notin PostsIn(call.similar_posts))

\* The entries of the scored log that pass the threshold.
Qualifying ==
    {i \in DOMAIN call.scored :
        RGeq(call.scored[i].score, config.similarity_threshold)}

\* max_shown does not cut the list of the call.
NotTruncated ==
    config.max_shown <= 0 \/ Cardinality(Qualifying) <= config.max_shown

\* C3: every candidate is scored exactly once and listed at most once, however
\* many category views it shares with the page; candidates are told apart by
\* identity, so two posts with the same title and categories are both kept.
C3_CandidateScoredOnce ==
    Called =>
      \A q \in Posts :
        /\ Occurrences(call.scored, q) <= 1
        /\ Occurrences(call.similar_posts, q) <= 1
        /\ q \in CandidatesOf(call.page) => Occurrences(call.scored, q) = 1
        /\ \A r \in Posts \ {q} :
              ( /\ {q, r} \subseteq CandidatesOf(call.page)
                /\ Title(q) = Title(r) /\ posts[q] = posts[r]
                /\ NotTruncated
                /\ \E i \in Qualifying : call.scored[i].post = q )
              => {q, r} \subseteq PostsIn(call.similar_posts)

\* A call whose list holds two distinct posts with one title and one category
\* list, each of them in two category views of the page.
C3_Witness ==
    /\ call.outcome = "markdown"
    /\ \E q, r \in PostsIn(call.similar_posts) :
          /\ q # r /\ Title(q) = Title(r) /\ posts[q] = posts[r]
          /\ Cardinality(posts[q].indexed
                         \cap ToSet(posts[call.page].categories.list)) >= 2

\* C4: the page of a call is neither scored nor listed in its own section.
C4_NoSelfMatch ==
    Called =>
      /\ call.page \notin PostsIn(call.scored)
      /\ call.page \notin PostsIn(call.similar_posts)

\* A call that rendered a section although only a score of 1 passes the
\* threshold, which the page's score against itself would.
C4_Witness ==
    /\ call.outcome = "markdown"
    /\ config.similarity_threshold = FromInt(1)
    /\ posts[call.page].indexed = ToSet(posts[call.page].categories.list)
    /\ weighted_jaccard_similarity(posts[call.page].indexed,
                                   posts[call.page].indexed, TRUE) = FromInt(1)

\* C5: the weighted score is 0 when a set is empty and otherwise
\* |A n B| (|A| + |B|) / (2 |A| |B|); no division by zero occurs in either
\* mode; on the scenario site D1 lists [D3 (5/6), D2 (3/4)] with threshold 1/2
\* and max_shown 10, and gets no section with threshold 9/10.
C5_WeightedScore ==
    LET a == Cardinality(eval.set_a)
        b == Cardinality(eval.set_b)
        i == Cardinality(eval.set_a \cap eval.set_b)
        OnD1 == Called /\ call.page = 1 /\ posts = ScenarioSite
                /\ config.max_shown = 10
    IN  /\ ~Raised(eval.score)
        /\ (eval.use_weights /\ (a = 0 \/ b = 0)) => eval.score = FromInt(0)
        /\ (eval.use_weights /\ a > 0 /\ b > 0)
              => eval.score.n * (2 * a * b) = eval.score.d * (i * (a + b))
        /\ (OnD1 /\ config.similarity_threshold = Rat(1, 2))
              => /\ call.outcome = "markdown"
                 /\ call.similar_posts = <<[post |-> 3, score |-> Rat(5, 6)],
                                           [post |-> 2, score |-> Rat(3, 4)]>>
        /\ (OnD1 /\ config.similarity_threshold = Rat(9, 10))
              => /\ call.outcome = "None"
                 /\ call.similar_posts = <<>>

\* The score of {go, rust} against {go} was computed, and D1 got its list.
C5_Witness ==
    /\ eval.set_a = {"go", "rust"} /\ eval.set_b = {"go"} /\ eval.use_weights
    /\ eval.score = Rat(3, 4)
    /\ call.page = 1 /\ call.outcome = "markdown"
    /\ config.similarity_threshold = Rat(1, 2) /\ config.max_shown = 10
    /\ Len(call.similar_posts) = 2

\* The categories of a post, as a set.
SetOf(p) == ToSet(posts[p].categories.list)

\* The score a call logged for post q, within a set of such scores.
ScoresOf(c, q) == {c.scored[i].score : i \in {j \in DOMAIN c.scored : c.scored[j].post = q}}

\* C6: candidacy and score are symmetric: a call scores exactly the page's
\* candidates, and a post is a candidate of the page iff the page is one of
\* the post's; the score function gives the same value with its arguments
\* exchanged, in both modes; of two calls made one after the other, the second
\* page was scored for the first iff the first page is scored for the second,
\* with the same score.
C6_Symmetry ==
    /\ [](Called =>
            /\ PostsIn(call.scored) = CandidatesOf(call.page)
            /\ \A y \in Posts :
                  /\ y \in CandidatesOf(call.page)
                        <=> call.page \in CandidatesOf(y)
                  /\ \A w \in BOOLEAN :
                        weighted_jaccard_similarity(SetOf(call.page), SetOf(y), w)
                        = weighted_jaccard_similarity(SetOf(y), SetOf(call.page), w))
    /\ [][ (Called /\ call'.outcome # "not called")
           => /\ call'.page \in PostsIn(call.scored)
                 <=> call.page \in PostsIn(call'.scored)
              /\ ScoresOf(call, call'.page) = ScoresOf(call', call.page)
         ]_vars

\* A call that scored a candidate whose category set has another size than
\* the page's.
C6_Witness ==
    /\ Called
    /\ \E q \in PostsIn(call.scored) :
          /\ Cardinality(SetOf(q)) # Cardinality(SetOf(call.page))
          /\ call.page \in CandidatesOf(q)

\* C7: the threshold is an inclusive lower bound: everything listed has a
\* score >= similarity_threshold, nothing scored below it is listed, and when
\* max_shown cuts nothing every candidate scored >= the threshold (a score
\* equal to it included) is listed.
C7_ThresholdInclusive ==
    Completed =>
      /\ \A k \in DOMAIN call.similar_posts :
            /\ RGeq(call.similar_posts[k].score, config.similarity_threshold)
            /\ \E i \in DOMAIN call.scored : call.scored[i] = call.similar_posts[k]
      /\ \A i \in DOMAIN call.scored :
            RLess(call.scored[i].score, config.similarity_threshold)
               => call.scored[i].post \notin PostsIn(call.similar_posts)
      /\ NotTruncated
            => \A i \in Qualifying :
                  call.scored[i].post \in PostsIn(call.similar_posts)

\* A call with one candidate scored exactly the threshold and listed, and
\* another scored below it.
C7_Witness ==
    /\ call.outcome = "markdown"
    /\ \E i, j \in DOMAIN call.scored :
          /\ call.scored[i].score = config.similarity_threshold
          /\ call.scored[i].post \in PostsIn(call.similar_posts)
          /\ RLess(call.scored[j].score, config.similarity_threshold)

\* The number of list items of a rendered body.
Links(markdown) == Cardinality({i \in DOMAIN markdown : markdown[i] = "- ["})

\* C8: with max_shown = k > 0 and more than k candidates passing the
\* threshold exactly k are rendered; the list is in descending score order; no
\* omitted qualifying candidate scores higher than a rendered one; with
\* max_shown <= 0 every qualifying candidate is rendered.
C8_Truncation ==
    Completed =>
      LET L == call.similar_posts
          k == config.max_shown
      IN  /\ (k > 0 /\ Cardinality(Qualifying) > k)
                => (Len(L) = k /\ Links(call.markdown) = k)
          /\ \A i \in 1..(Len(L) - 1) : RGeq(L[i].score, L[i + 1].score)
          /\ \A i \in Qualifying, j \in DOMAIN L :
                call.scored[i].post \notin PostsIn(L)
                   => ~RLess(L[j].score, call.scored[i].score)
          /\ k <= 0
                => /\ PostsIn(L) = {call.scored[i].post : i \in Qualifying}
                   /\ Len(L) = Cardinality(Qualifying)
                   /\ Links(call.markdown) = Cardinality(Qualifying)

\* A call with max_shown = 2 and three qualifying candidates, not all of one
\* score.
C8_Witness ==
    /\ call.outcome = "markdown"
    /\ config.max_shown = 2
    /\ Cardinality(Qualifying) = 3
    /\ \E i, j \in Qualifying : call.scored[i].score # call.scored[j].score

RECURSIVE Flatten(_)
Flatten(views) ==
    IF views = <<>> THEN <<>> ELSE views[1].posts \o Flatten(Tail(views))

\* The posts in the order the page meets them: the category views named by
\* one of the page's categories, in the order of the views, each in its own
\* order.
Discovery(page) ==
    LET prefix == CHOOSE x \in DOMAIN blog_instance_map : UnderPrefix(page, x)
        Matches(v) == v.is_category /\ v.name \in SetOf(page)
    IN  Flatten(SelectSeq(Views(blog_instance_map[prefix]), Matches))

\* Where a post is first met.
Rank(page, q) ==
    CHOOSE i \in DOMAIN Discovery(page) :
        /\ Discovery(page)[i] = q
        /\ \A j \in 1..(i - 1) : Discovery(page)[j] # q

\* C9: candidates of equal score are listed in discovery order, and of
\* equally scored qualifying candidates the one cut by max_shown was met later
\* than every one listed.
C9_StableTies ==
    call.outcome = "markdown" =>
      LET L == call.similar_posts
      IN  /\ \A i, j \in DOMAIN L :
                (i < j /\ L[i].score = L[j].score)
                   => Rank(call.page, L[i].post) < Rank(call.page, L[j].post)
          /\ \A i \in Qualifying, j \in DOMAIN L :
                ( /\ call.scored[i].post \notin PostsIn(L)
                  /\ call.scored[i].score = L[j].score )
                   => Rank(call.page, L[j].post)
                      < Rank(call.page, call.scored[i].post)

\* A call that listed two candidates of equal score, and left out a third
\* one of that score because of max_shown.
C9_Witness ==
    /\ call.outcome = "markdown"
    /\ Len(call.similar_posts) = 2
    /\ call.similar_posts[1].score = call.similar_posts[2].score
    /\ \E i \in Qualifying :
          /\ call.scored[i].post \notin PostsIn(call.similar_posts)
          /\ call.scored[i].score = call.similar_posts[2].score

\* p ends in exactly one "/".
EndsInOneSlash(p) ==
    /\ Len(p) >= 1 /\ p[Len(p)] = "/"
    /\ Len(p) >= 2 => p[Len(p) - 1] # "/"

\* p is h without its trailing "/"s, followed by one "/".
SanitizedFrom(p, h) ==
    \E n \in 0..Len(h) :
        /\ p = SubSeq(h, 1, n) \o <<"/">>
        /\ n = 0 \/ h[n] # "/"
        /\ \A j \in (n + 1)..Len(h) : h[j] = "/"

\* The name of a blog plugin: its part before the first space ends in /blog.
BlogName(name) ==
    \E n \in 5..Len(name) :
        /\ \A j \in 1..n : name[j] # " "
        /\ n = Len(name) \/ name[n + 1] = " "
        /\ SubSeq(name, n - 4, n) = <<"/", "b", "l", "o", "g">>

\* Plugin i of the current configuration is an enabled blog instance for key.
BoundTo(i, key) ==
    /\ BlogName(plugins[i].name)
    /\ plugins[i].instance.enabled
    /\ SanitizedFrom(key, plugins[i].instance.blog_dir)

\* C10: the resolver state is what the current configuration alone gives:
\* the prefixes are the configured ones, each ending in exactly one "/"; a key
\* of the map is a current prefix bound to the last enabled blog instance of
\* the current plugin list with that blog_dir, and every such prefix is a key;
\* on_page_markdown changes neither the prefixes nor the map.
C10_ResolverRebuilt ==
    /\ []( /\ ~config.hook_blog_dir.is_str
           /\ Len(sanitized_prefixes) = Len(config.hook_blog_dir.list)
           /\ \A i \in DOMAIN sanitized_prefixes :
                 /\ SanitizedFrom(sanitized_prefixes[i],
                                  config.hook_blog_dir.list[i])
                 /\ EndsInOneSlash(sanitized_prefixes[i])
           /\ \A key \in DOMAIN blog_instance_map :
                 /\ InList(key, sanitized_prefixes)
                 /\ \E i \in DOMAIN plugins :
                       /\ BoundTo(i, key)
                       /\ blog_instance_map[key] = plugins[i].instance
                       /\ \A j \in (i + 1)..Len(plugins) : ~BoundTo(j, key)
           /\ \A key \in ToSet(sanitized_prefixes) :
                 (\E i \in DOMAIN plugins : BoundTo(i, key))
                    => key \in DOMAIN blog_instance_map )
    /\ [][ call'.outcome # "not called"
           => /\ blog_instance_map' = blog_instance_map
              /\ sanitized_prefixes' = sanitized_prefixes ]_vars

\* After a page was processed: two configured prefixes, the first written
\* with two trailing "/"s and bound to a blog instance, the second unbound.
C10_Witness ==
    /\ Called
    /\ config.hook_blog_dir.list = <<<<"b", "/", "/">>, <<"n">>>>
    /\ sanitized_prefixes = <<<<"b", "/">>, <<"n", "/">>>>
    /\ DOMAIN blog_instance_map = {<<"b", "/">>}

====
